---- MODULE Spec2Model ----
(***************************************************************************)
(* typezod: schema nodes, the builder namespace t, isAssignableTo and the  *)
(* per-checker module resolution cache of t.fromModule (src/src/index.ts). *)
(*                                                                         *)
(* The TypeScript checker is the type oracle.  Its answers are computed    *)
(* structurally over a small universe of types, the ones the repository's  *)
(* tests declare.  A value that may be undefined or null in the code is a  *)
(* sequence of length 0 or 1 here.                                         *)
(***************************************************************************)
EXTENDS Integers, Sequences, FiniteSets, TLC

VARIABLES moduleTypeCache, resolveCount, firstResolved, call, outcome, nodes

vars == <<moduleTypeCache, resolveCount, firstResolved, call, outcome, nodes>>

(***************************************************************************)
(* Bounds of the model.                                                    *)
(***************************************************************************)
\* most member schemas of a union or intersection built for a call
MaxMembers == 2
\* resolveModuleType calls per checker and key that the model follows
MaxResolutions == 2
\* most TypeSchema objects a caller holds at a time
MaxNodes == 3

(***************************************************************************)
(* Program constants.                                                      *)
(***************************************************************************)
TS_SYMBOL_FLAGS_OPTIONAL == 16777216
\* ts.SymbolFlags.Property, the flag every property symbol carries
SymbolFlagsProperty == 4

None == <<>>
Some(v) == <<v>>

(***************************************************************************)
(* ts.Type values.                                                         *)
(***************************************************************************)
Atom(n) == [k |-> "atom", name |-> n, types |-> <<>>, props |-> <<>>, elem |-> <<>>]
UnionT(ts) == [k |-> "union", name |-> "", types |-> ts, props |-> <<>>, elem |-> <<>>]
ObjT(n, ps) == [k |-> "object", name |-> n, types |-> <<>>, props |-> ps, elem |-> <<>>]
ArrT(e) == [k |-> "array", name |-> "", types |-> <<>>, props |-> <<>>, elem |-> <<e>>]

PropSym(n, ty) == [name |-> n, flags |-> SymbolFlagsProperty, type |-> ty]
OptPropSym(n, ty) ==
  [name |-> n, flags |-> SymbolFlagsProperty + TS_SYMBOL_FLAGS_OPTIONAL, type |-> ty]

NumberT == Atom("number")
StringT == Atom("string")
TrueT == Atom("true")
FalseT == Atom("false")
BooleanT == UnionT(<<FalseT, TrueT>>)
VoidT == Atom("void")
UndefinedT == Atom("undefined")
NullT == Atom("null")
Literal42T == Atom("42")
LiteralHiT == Atom("hi")

\* literal types widen to their base; undefined is assignable to void
AtomWidening ==
  {<<"42", "number">>, <<"hi", "string">>, <<"undefined", "void">>}

\* (flags & TS_SYMBOL_FLAGS_OPTIONAL) !== 0
HasOptionalFlag(flags) == (flags \div TS_SYMBOL_FLAGS_OPTIONAL) % 2 = 1

\* type.isUnion() and type.types
IsUnion(ty) == ty.k = "union"

\* the apparent members of a type that is not a union
OwnProps(ty) ==
  CASE ty.k = "object" -> ty.props
    [] ty.k \in {"array", "tuple"} -> <<PropSym("length", NumberT)>>
    [] ty.k = "atom" /\ ty.name \in {"string", "hi"} -> <<PropSym("length", NumberT)>>
    [] OTHER -> <<>>

OwnProperty(ty, key) ==
  LET ps == OwnProps(ty)
      hit == {i \in 1..Len(ps) : ps[i].name = key}
  IN IF hit = {} THEN None ELSE Some(ps[CHOOSE i \in hit : TRUE])

RECURSIVE Dedup(_)
Dedup(s) ==
  IF s = <<>> THEN <<>>
  ELSE LET rest == Dedup(Tail(s))
       IN IF \E i \in 1..Len(rest) : rest[i] = Head(s) THEN rest ELSE <<Head(s)>> \o rest

RECURSIVE Flatten(_)
Flatten(ts) ==
  IF ts = <<>> THEN <<>>
  ELSE (IF IsUnion(Head(ts)) THEN Head(ts).types ELSE <<Head(ts)>>) \o Flatten(Tail(ts))

\* the checker's union of the given types: flat, without repeats
MkUnion(ts) ==
  LET flat == Dedup(Flatten(ts))
  IN IF Len(flat) = 1 THEN flat[1] ELSE UnionT(flat)

\* a tuple type: its numeric index type is the union of its element types
TupleT(es) ==
  [k |-> "tuple", name |-> "", types |-> <<>>, props |-> <<>>, elem |-> <<MkUnion(es)>>]

\* type.getProperty(key): a union has the properties all its constituents have
GetProperty(ty, key) ==
  IF IsUnion(ty)
  THEN LET syms == [i \in 1..Len(ty.types) |-> OwnProperty(ty.types[i], key)]
       IN IF \E i \in 1..Len(syms) : syms[i] = None THEN None
          ELSE Some([name |-> key,
                     flags |-> SymbolFlagsProperty +
                       (IF \E i \in 1..Len(syms) : HasOptionalFlag(syms[i][1].flags)
                        THEN TS_SYMBOL_FLAGS_OPTIONAL ELSE 0),
                     type |-> MkUnion([i \in 1..Len(syms) |-> syms[i][1].type])])
  ELSE OwnProperty(ty, key)

\* checker.getTypeOfSymbol(propSymbol)
GetTypeOfSymbol(sym) == sym.type

OwnNumberIndexType(ty) ==
  CASE ty.k \in {"array", "tuple"} -> ty.elem
    [] ty.k = "atom" /\ ty.name \in {"string", "hi"} -> Some(StringT)
    [] OTHER -> None

\* type.getNumberIndexType()
GetNumberIndexType(ty) ==
  IF IsUnion(ty)
  THEN LET ix == [i \in 1..Len(ty.types) |-> OwnNumberIndexType(ty.types[i])]
       IN IF \E i \in 1..Len(ix) : ix[i] = None THEN None
          ELSE Some(MkUnion([i \in 1..Len(ix) |-> ix[i][1]]))
  ELSE OwnNumberIndexType(ty)

\* checker.isTypeAssignableTo(source, target), under strict
RECURSIVE IsTypeAssignableTo(_, _)
IsTypeAssignableTo(s, t) ==
  IF IsUnion(s) THEN \A i \in 1..Len(s.types) : IsTypeAssignableTo(s.types[i], t)
  ELSE IF IsUnion(t) THEN \E i \in 1..Len(t.types) : IsTypeAssignableTo(s, t.types[i])
  ELSE CASE t.k = "atom" ->
              s.k = "atom" /\ (s.name = t.name \/ <<s.name, t.name>> \in AtomWidening)
         [] t.k = "array" ->
              s.k \in {"array", "tuple"} /\ IsTypeAssignableTo(s.elem[1], t.elem[1])
         [] OTHER ->
              /\ s.k = "object"
              /\ \A i \in 1..Len(t.props) :
                   LET q == OwnProperty(s, t.props[i].name)
                   IN /\ q # None
                      /\ HasOptionalFlag(q[1].flags) => HasOptionalFlag(t.props[i].flags)
                      /\ IsTypeAssignableTo(q[1].type, t.props[i].type)

(***************************************************************************)
(* The programs under analysis: file names are sequences of path segments, *)
(* module specifiers sequences of characters.                              *)
(***************************************************************************)
Checkers == {"checkerA", "checkerB"}
NoProgram == "none"
\* program.getTypeChecker() === checker
ProgramOf(checker) == IF checker = "checkerA" THEN "programA" ELSE "programB"

\* program.getCurrentDirectory()
GetCurrentDirectory(program) == IF program = "programA" THEN <<"proj">> ELSE <<"other">>

TestFile == <<"proj", "test.ts">>
SubFile == <<"proj", "sub", "other.ts">>
OtherTestFile == <<"other", "test.ts">>
\* the source files a caller can put in the context, per program
SourceFilesOf(program) == IF program = "programA" THEN {TestFile, SubFile} ELSE {OtherTestFile}

DirName(file) == SubSeq(file, 1, Len(file) - 1)

FakeLib == <<"f", "a", "k", "e", "-", "l", "i", "b">>
FileLib == <<".", "/", "f", "i", "l", "e", "-", "l", "i", "b">>
MyLib == <<"m", "y", "-", "l", "i", "b">>
NoSuchModule == <<"n", "o", "-", "s", "u", "c", "h">>
ShadowLib == <<"s", "h", "a", "d", "o", "w">>
DotLib == <<".", "l", "i", "b">>
ScriptLib == <<"s", "c", "r", "i", "p", "t">>
ParentLib == <<".", ".", "/", "f", "i", "l", "e", "-", "l", "i", "b">>

FakeLibFile == <<"proj", "node_modules", "fake-lib", "index.d.ts">>
SubFakeLibFile == <<"proj", "sub", "node_modules", "fake-lib", "index.d.ts">>
OtherFakeLibFile == <<"other", "node_modules", "fake-lib", "index.d.ts">>
FileLibFile == <<"proj", "file-lib.d.ts">>
ShadowLibFile == <<"proj", "node_modules", "shadow", "index.d.ts">>
DotLibFile == <<"proj", "node_modules", ".lib", "index.js">>
\* a declaration file that is a script, not a module: it has no module symbol
ScriptLibFile == <<"proj", "node_modules", "script", "index.d.ts">>

GadgetT == ObjT("Gadget", <<PropSym("id", NumberT), PropSym("name", StringT)>>)
SubGadgetT == ObjT("Gadget", <<PropSym("id", StringT)>>)
OtherGadgetT == ObjT("Gadget", <<PropSym("serial", StringT)>>)
ConfigT == ObjT("Config", <<PropSym("verbose", BooleanT)>>)
WidgetT == ObjT("Widget", <<PropSym("id", NumberT)>>)
FooT == ObjT("Foo", <<PropSym("bar", StringT)>>)
BarT == ObjT("Bar", <<PropSym("qux", NumberT)>>)

ExportSym(n, ty) == [name |-> n, declared |-> ty]
ModuleSym(n, exports) == [name |-> n, exports |-> exports]

\* `"${moduleName}"`
Quoted(moduleName) == <<"\"">> \o moduleName \o <<"\"">>

\* ts.resolveModuleName(moduleName, containingFile, compilerOptions, ts.sys).resolvedModule:
\* a package is looked up in the node_modules of the containing directory and of
\* its ancestors, a relative specifier beside the containing file
ResolveModuleName(moduleName, containingFile) ==
  LET dir == DirName(containingFile)
  IN CASE moduleName = FakeLib /\ dir = <<"proj">> -> Some(FakeLibFile)
       [] moduleName = FakeLib /\ dir = <<"proj", "sub">> -> Some(SubFakeLibFile)
       [] moduleName = FakeLib /\ dir = <<"other">> -> Some(OtherFakeLibFile)
       [] moduleName = FileLib /\ dir = <<"proj">> -> Some(FileLibFile)
       [] moduleName = ParentLib /\ dir = <<"proj", "sub">> -> Some(FileLibFile)
       [] moduleName = ShadowLib /\ dir \in {<<"proj">>, <<"proj", "sub">>} -> Some(ShadowLibFile)
       [] moduleName = DotLib /\ dir \in {<<"proj">>, <<"proj", "sub">>} -> Some(DotLibFile)
       [] moduleName = ScriptLib /\ dir \in {<<"proj">>, <<"proj", "sub">>} -> Some(ScriptLibFile)
       [] OTHER -> None

\* program.getSourceFile(fileName): the declaration files the program loaded
GetSourceFile(program, fileName) ==
  IF \/ program = "programA" /\ fileName \in {FakeLibFile, SubFakeLibFile, FileLibFile,
                                                ShadowLibFile, ScriptLibFile}
     \/ program = "programB" /\ fileName = OtherFakeLibFile
  THEN Some(fileName) ELSE None

\* checker.getSymbolAtLocation(resolvedSf): the module symbol of a module file
GetSymbolAtLocation(checker, sf) ==
  CASE sf = FakeLibFile ->
         Some(ModuleSym(Quoted(sf), <<ExportSym("Gadget", GadgetT), ExportSym("Config", ConfigT)>>))
    [] sf = SubFakeLibFile -> Some(ModuleSym(Quoted(sf), <<ExportSym("Gadget", SubGadgetT)>>))
    [] sf = OtherFakeLibFile -> Some(ModuleSym(Quoted(sf), <<ExportSym("Gadget", OtherGadgetT)>>))
    [] sf = FileLibFile -> Some(ModuleSym(Quoted(sf), <<ExportSym("Widget", WidgetT)>>))
    [] sf = ShadowLibFile -> Some(ModuleSym(Quoted(sf), <<ExportSym("Bar", BarT)>>))
    [] OTHER -> None

\* checker.getAmbientModules(): the `declare module '...'` blocks of the program
GetAmbientModules(checker) ==
  IF checker = "checkerA"
  THEN << ModuleSym(Quoted(MyLib), <<ExportSym("Foo", FooT), ExportSym("Baz", BarT)>>),
          ModuleSym(Quoted(ShadowLib), <<ExportSym("Foo", FooT), ExportSym("Bar", BarT)>>),
          ModuleSym(Quoted(DotLib), <<ExportSym("Foo", FooT)>>),
          ModuleSym(Quoted(ScriptLib), <<ExportSym("Foo", FooT)>>) >>
  ELSE <<>>

\* checker.getExportsOfModule(moduleSymbol)
GetExportsOfModule(moduleSymbol) == moduleSymbol.exports

\* checker.getDeclaredTypeOfSymbol(exportSymbol)
GetDeclaredTypeOfSymbol(exportSymbol) == exportSymbol.declared

\* Array.prototype.find over a sequence of symbols, by name
FindByName(syms, n) ==
  LET hit == {i \in 1..Len(syms) : syms[i].name = n}
  IN IF hit = {} THEN None
     ELSE Some(syms[CHOOSE i \in hit : \A j \in hit : i <= j])

\* resolveModuleType's module symbol: standard resolution, then the ambient modules
ResolveModuleSymbol(checker, program, moduleName, sourceFile) ==
  LET containingFile ==
        IF sourceFile # None THEN sourceFile[1]
        ELSE GetCurrentDirectory(program) \o <<"__typezod__.ts">>
      resolved == ResolveModuleName(moduleName, containingFile)
      resolvedSf == IF resolved # None THEN GetSourceFile(program, resolved[1]) ELSE None
      standard == IF resolvedSf # None THEN GetSymbolAtLocation(checker, resolvedSf[1]) ELSE None
  IN IF standard # None THEN standard
     ELSE FindByName(GetAmbientModules(checker), Quoted(moduleName))

\* resolveModuleType: the declared type of the export, or null
ResolveModuleType_AmbientWhenExportMissing(checker, program, moduleName, exportName, sourceFile) ==
  LET moduleSymbol == ResolveModuleSymbol(checker, program, moduleName, sourceFile)
      ambient == FindByName(GetAmbientModules(checker), Quoted(moduleName))
      exportOf(m) == IF m = None THEN None ELSE FindByName(GetExportsOfModule(m[1]), exportName)
      exportSymbol == IF exportOf(moduleSymbol) # None THEN exportOf(moduleSymbol)
                      ELSE exportOf(ambient)
  IN IF exportSymbol = None THEN None ELSE Some(GetDeclaredTypeOfSymbol(exportSymbol[1]))
ResolveModuleType(checker, program, moduleName, exportName, sourceFile) ==
  LET moduleSymbol == ResolveModuleSymbol(checker, program, moduleName, sourceFile)
  IN IF moduleSymbol = None THEN None
     ELSE LET exportSymbol == FindByName(GetExportsOfModule(moduleSymbol[1]), exportName)
          IN IF exportSymbol = None THEN None
             ELSE Some(GetDeclaredTypeOfSymbol(exportSymbol[1]))

(***************************************************************************)
(* Schema nodes.  A node holds its predicate (_accepts), here the data the *)
(* closure captures, and its _isOptional flag.                             *)
(***************************************************************************)
\* new TypeSchema(accepts, isOptional)
TypeSchema(accepts, isOptional) == [accepts |-> accepts, isOptional |-> isOptional]

\* schema(check): a node with the default isOptional = false
schema_InheritsFlag(check) ==
  TypeSchema(check, \E i \in 1..Len(check.members) : check.members[i].isOptional)
schema(check) == TypeSchema(check, FALSE)

Check(kind, members, keys, moduleName, exportName, predicate) ==
  [kind |-> kind, members |-> members, keys |-> keys,
   moduleName |-> moduleName, exportName |-> exportName, predicate |-> predicate]

Leaf(kind) == Check(kind, <<>>, <<>>, <<>>, "", "")

t_number == schema(Leaf("number"))
t_string == schema(Leaf("string"))
t_boolean == schema(Leaf("boolean"))
t_void == schema(Leaf("void"))
t_undefined == schema(Leaf("undefined"))
t_null == schema(Leaf("null"))
t_any == schema(Leaf("any"))
t_unknown == schema(Leaf("unknown"))
\* shape: keys[i] is the i-th key in declaration order, props[i] its schema
t_object(keys, props) == schema(Check("object", props, keys, <<>>, "", ""))
t_array(element) == schema(Check("array", <<element>>, <<>>, <<>>, "", ""))
t_union(members) == schema(Check("union", members, <<>>, <<>>, "", ""))
t_intersection(members) == schema(Check("intersection", members, <<>>, <<>>, "", ""))
t_fromModule(moduleName, exportName) ==
  schema(Check("fromModule", <<>>, <<>>, moduleName, exportName, ""))
t_custom(predicate) == schema(Check("custom", <<>>, <<>>, <<>>, "", predicate))

\* TypeSchema.optional()
optional_NotFlagged(this) == TypeSchema(t_union(<<this, t_undefined>>).accepts, FALSE)
optional(this) == TypeSchema(t_union(<<this, t_undefined>>).accepts, TRUE)

\* TypeSchema.nullable()
nullable(this) == t_union(<<this, t_null>>)

\* TypeSchema.nullish()
nullish_NullableOnly(this) == nullable(this)
nullish(this) == optional(nullable(this))

(***************************************************************************)
(* TypeSchema objects by identity: a heap is the sequence of the objects   *)
(* constructed so far, a reference the position of one.  The closure of a  *)
(* modified node captures the receiver by reference.                       *)
(***************************************************************************)
Ref(i) == [ref |-> i]
IsRef(x) == "ref" \in DOMAIN x

\* the schema tree a reference or node stands for in a heap
RECURSIVE Deref(_, _)
Deref(heap, x) ==
  LET n == IF IsRef(x) THEN heap[x.ref] ELSE x
  IN TypeSchema([n.accepts EXCEPT !.members =
                   [k \in 1..Len(n.accepts.members) |-> Deref(heap, n.accepts.members[k])]],
                n.isOptional)

\* new TypeSchema(...) in a method of the object this: a fresh object
Construct_InPlace(heap, this, node) ==
  [heap EXCEPT ![this.ref] = TypeSchema(@.accepts, node.isOptional)]
Construct(heap, this, node) == Append(heap, node)

\* the heap after this.optional(), this.nullable(), this.nullish(); the result
\* of the call is the object constructed last
HeapOptional(heap, this) == Construct(heap, this, optional(this))
HeapNullable(heap, this) == Construct(heap, this, nullable(this))
HeapNullish(heap, this) ==
  LET h == HeapNullable(heap, this) IN HeapOptional(h, Ref(Len(h)))

(***************************************************************************)
(* Outcomes of an evaluation: a boolean, or a raised Error and its message.*)
(* An evaluation also carries the store it reads and writes: the module    *)
(* resolution cache, with the history of the resolutions made.             *)
(***************************************************************************)
BoolOut(b) == [kind |-> "bool", value |-> b, msg |-> <<>>]
ErrorOut(msg) == [kind |-> "error", value |-> FALSE, msg |-> msg]
Pending == [kind |-> "pending", value |-> FALSE, msg |-> <<>>]
Ret(out, st) == [out |-> out, st |-> st]
Store(cache, count, first) == [cache |-> cache, count |-> count, first |-> first]

IsTrue(out) == out.kind = "bool" /\ out.value
IsFalse(out) == out.kind = "bool" /\ ~out.value
IsError(out) == out.kind = "error"

MissingProgramMessage == <<"t.fromModule() requires program in the SchemaContext.">>
MissingSourceFileMessage ==
  <<"t.fromModule() requires sourceFile in the SchemaContext for relative module specifiers.">>
\* the template: could not resolve export <exportName> from module <moduleName>
UnresolvedMessage(exportName, moduleName) ==
  <<"t.fromModule(): could not resolve export \"", exportName,
    "\" from module \"", moduleName, "\".">>

\* a Map: a function whose domain is the set of keys it has
EmptyMap == [key \in {} |-> None]
MapSet(map, key, value) ==
  [x \in DOMAIN map \cup {key} |-> IF x = key THEN value ELSE map[x]]

StartsWith(s, prefix) ==
  Len(s) >= Len(prefix) /\ SubSeq(s, 1, Len(prefix)) = prefix

\* moduleName.startsWith("./") || moduleName.startsWith("../")
IsRelative_ParentOnly(moduleName) == StartsWith(moduleName, <<".", ".", "/">>)
IsRelative(moduleName) ==
  StartsWith(moduleName, <<".", "/">>) \/ StartsWith(moduleName, <<".", ".", "/">>)

\* JSON.stringify([moduleName, exportName, isRelative ? sourceFile!.fileName : null])
CacheKey(moduleName, exportName, isRelative, sourceFile) ==
  <<moduleName, exportName, IF isRelative THEN sourceFile ELSE None>>

\* !cache.has(cacheKey)
CacheMiss_Always(cache, cacheKey) == TRUE
CacheMiss_NullIsMiss(cache, cacheKey) ==
  cacheKey \notin DOMAIN cache \/ cache[cacheKey] = None
CacheMiss(cache, cacheKey) == cacheKey \notin DOMAIN cache

\* the well-known type a primitive schema compares with
WellKnownType_VoidAsUndefined(kind) ==
  CASE kind = "number" -> NumberT
    [] kind = "string" -> StringT
    [] kind = "boolean" -> BooleanT
    [] kind \in {"void", "undefined"} -> UndefinedT
    [] kind = "null" -> NullT
WellKnownType(kind) ==
  CASE kind = "number" -> NumberT
    [] kind = "string" -> StringT
    [] kind = "boolean" -> BooleanT
    [] kind = "void" -> VoidT
    [] kind = "undefined" -> UndefinedT
    [] kind = "null" -> NullT

\* the predicates callers hand to t.custom
ApplyPredicate(predicate, type, ctx) ==
  CASE predicate = "hasLength" -> GetProperty(type, "length") # None
    [] predicate = "isUnion" -> IsUnion(type)
    [] OTHER -> FALSE

\* !program
ProgramMissing_Unchecked(program) == FALSE
ProgramMissing(program) == program = NoProgram

\* moduleTypeCache.get(ctx.checker)
CacheOf_Shared(store, checker) == store["checkerA"]
CacheOf(store, checker) == store[checker]

\* throw new Error(...): the evaluation ends, the store stays as it is
Throw_AfterMapCreated(out, st, ctx) ==
  Ret(out, Store([st.cache EXCEPT ![ctx.checker] = IF @ = None THEN Some(EmptyMap) ELSE @],
                 st.count, st.first))
Throw(out, st, ctx) == Ret(out, st)

\* the predicate of t.fromModule(moduleName, exportName)
AcceptsFromModule(moduleName, exportName, type, ctx, st) ==
  IF ProgramMissing(ctx.program) THEN Throw(ErrorOut(MissingProgramMessage), st, ctx)
  ELSE
    LET isRelative == IsRelative(moduleName)
    IN IF isRelative /\ ctx.sourceFile = None
       THEN Throw(ErrorOut(MissingSourceFileMessage), st, ctx)
       ELSE
         LET found == CacheOf(st.cache, ctx.checker)
             cache == IF found = None THEN EmptyMap ELSE found[1]
             cacheKey == CacheKey(moduleName, exportName, isRelative, ctx.sourceFile)
             miss == CacheMiss(cache, cacheKey)
             resolved == ResolveModuleType(ctx.checker, ctx.program, moduleName,
                                           exportName, ctx.sourceFile)
             cache2 == IF miss THEN MapSet(cache, cacheKey, resolved) ELSE cache
             count == st.count[ctx.checker]
             first == st.first[ctx.checker]
             st2 == Store(
               [st.cache EXCEPT ![ctx.checker] = Some(cache2)],
               IF miss
               THEN [st.count EXCEPT ![ctx.checker] =
                       MapSet(count, cacheKey,
                              IF cacheKey \in DOMAIN count THEN count[cacheKey] + 1 ELSE 1)]
               ELSE st.count,
               IF miss /\ cacheKey \notin DOMAIN first
               THEN [st.first EXCEPT ![ctx.checker] = MapSet(first, cacheKey, resolved)]
               ELSE st.first)
             targetType == cache2[cacheKey]
         IN IF targetType = None
            THEN Throw(ErrorOut(UnresolvedMessage(exportName, moduleName)), st2, ctx)
            ELSE Ret(BoolOut(IsTypeAssignableTo(type, targetType[1])), st2)

RECURSIVE Accepts(_, _, _, _)

\* members.some((m) => m._accepts(type, ctx)), from member i on
RECURSIVE SomeMember(_, _, _, _, _)
SomeMember(members, i, type, ctx, st) ==
  IF i > Len(members) THEN Ret(BoolOut(FALSE), st)
  ELSE LET r == Accepts(members[i], type, ctx, st)
       IN IF IsError(r.out) \/ IsTrue(r.out) THEN r
          ELSE SomeMember(members, i + 1, type, ctx, r.st)

\* types.every((member) => members.some(...)), from constituent j on
RECURSIVE EveryConstituent(_, _, _, _, _)
EveryConstituent(members, types, j, ctx, st) ==
  IF j > Len(types) THEN Ret(BoolOut(TRUE), st)
  ELSE LET r == SomeMember(members, 1, types[j], ctx, st)
       IN IF IsError(r.out) \/ IsFalse(r.out) THEN r
          ELSE EveryConstituent(members, types, j + 1, ctx, r.st)

\* the predicate of t.union(...members)
AcceptsUnion_Whole(members, type, ctx, st) == SomeMember(members, 1, type, ctx, st)
AcceptsUnion(members, type, ctx, st) ==
  IF IsUnion(type) THEN EveryConstituent(members, type.types, 1, ctx, st)
  ELSE SomeMember(members, 1, type, ctx, st)

\* members.every((m) => m._accepts(type, ctx)), from member i on
RECURSIVE EveryMember(_, _, _, _, _)
EveryMember(members, i, type, ctx, st) ==
  IF i > Len(members) THEN Ret(BoolOut(TRUE), st)
  ELSE LET r == Accepts(members[i], type, ctx, st)
       IN IF IsError(r.out) \/ IsFalse(r.out) THEN r
          ELSE EveryMember(members, i + 1, type, ctx, r.st)

\* the predicate of t.intersection(...members)
AcceptsIntersection_Decomposed(members, type, ctx, st) ==
  IF IsUnion(type)
  THEN Ret(BoolOut(\A j \in 1..Len(type.types) :
                     IsTrue(EveryMember(members, 1, type.types[j], ctx, st).out)), st)
  ELSE EveryMember(members, 1, type, ctx, st)
AcceptsIntersection(members, type, ctx, st) == EveryMember(members, 1, type, ctx, st)

\* the callback of the every() of t.object: one [key, propSchema] entry of the shape
AcceptsProperty_NoOptionalRule(key, propSchema, type, ctx, st) ==
  LET propSymbol == GetProperty(type, key)
  IN IF propSymbol = None THEN Ret(BoolOut(propSchema.isOptional), st)
     ELSE Accepts(propSchema, GetTypeOfSymbol(propSymbol[1]), ctx, st)
AcceptsProperty_AbsentRejected(key, propSchema, type, ctx, st) ==
  LET propSymbol == GetProperty(type, key)
  IN IF propSymbol = None THEN Ret(BoolOut(FALSE), st)
     ELSE IF ~propSchema.isOptional /\ HasOptionalFlag(propSymbol[1].flags)
     THEN Ret(BoolOut(FALSE), st)
     ELSE Accepts(propSchema, GetTypeOfSymbol(propSymbol[1]), ctx, st)
AcceptsProperty(key, propSchema, type, ctx, st) ==
  LET propSymbol == GetProperty(type, key)
  IN IF propSymbol = None THEN Ret(BoolOut(propSchema.isOptional), st)
     ELSE IF ~propSchema.isOptional /\ HasOptionalFlag(propSymbol[1].flags)
     THEN Ret(BoolOut(FALSE), st)
     ELSE Accepts(propSchema, GetTypeOfSymbol(propSymbol[1]), ctx, st)

\* Object.entries(shape).every(...), from entry i on
RECURSIVE EveryProperty(_, _, _, _, _, _)
EveryProperty(keys, props, i, type, ctx, st) ==
  IF i > Len(keys) THEN Ret(BoolOut(TRUE), st)
  ELSE LET r == AcceptsProperty(keys[i], props[i], type, ctx, st)
       IN IF IsError(r.out) \/ IsFalse(r.out) THEN r
          ELSE EveryProperty(keys, props, i + 1, type, ctx, r.st)

\* the predicate of t.object(shape)
AcceptsObject_Exact(keys, props, type, ctx, st) ==
  IF \E i \in 1..Len(OwnProps(type)) : \A k \in 1..Len(keys) : OwnProps(type)[i].name # keys[k]
  THEN Ret(BoolOut(FALSE), st)
  ELSE EveryProperty(keys, props, 1, type, ctx, st)
AcceptsObject(keys, props, type, ctx, st) == EveryProperty(keys, props, 1, type, ctx, st)

\* the predicate of t.array(element)
AcceptsArray_ElementFirst(element, type, ctx, st) ==
  LET indexType == GetNumberIndexType(type)
      r == Accepts(element, IF indexType = None THEN type ELSE indexType[1], ctx, st)
  IN IF IsError(r.out) \/ indexType # None THEN r ELSE Ret(BoolOut(FALSE), r.st)
AcceptsArray_Raises(element, type, ctx, st) ==
  LET indexType == GetNumberIndexType(type)
  IN IF indexType = None THEN Ret(ErrorOut(<<"not an array">>), st)
     ELSE Accepts(element, indexType[1], ctx, st)
AcceptsArray(element, type, ctx, st) ==
  LET indexType == GetNumberIndexType(type)
  IN IF indexType = None THEN Ret(BoolOut(FALSE), st)
     ELSE Accepts(element, indexType[1], ctx, st)

\* the predicate of a primitive schema
AcceptsPrimitive(kind, type, ctx, st) ==
  Ret(BoolOut(IsTypeAssignableTo(type, WellKnownType(kind))), st)

\* schema._accepts(type, ctx)
Accepts(node, type, ctx, st) ==
  LET check == node.accepts
  IN CASE check.kind \in {"any", "unknown"} -> Ret(BoolOut(TRUE), st)
       [] check.kind = "object" -> AcceptsObject(check.keys, check.members, type, ctx, st)
       [] check.kind = "array" -> AcceptsArray(check.members[1], type, ctx, st)
       [] check.kind = "union" -> AcceptsUnion(check.members, type, ctx, st)
       [] check.kind = "intersection" -> AcceptsIntersection(check.members, type, ctx, st)
       [] check.kind = "fromModule" ->
            AcceptsFromModule(check.moduleName, check.exportName, type, ctx, st)
       [] check.kind = "custom" ->
            Ret(BoolOut(ApplyPredicate(check.predicate, type, ctx)), st)
       [] OTHER -> AcceptsPrimitive(check.kind, type, ctx, st)

(***************************************************************************)
(* The inputs callers hand to isAssignableTo.                              *)
(***************************************************************************)
\* SchemaContext: checker, program?, sourceFile?
Context(checker, program, sourceFile) ==
  [checker |-> checker, program |-> program, sourceFile |-> sourceFile]

ContextsOf(checker) ==
  {Context(checker, NoProgram, None), Context(checker, ProgramOf(checker), None)}
  \cup {Context(checker, ProgramOf(checker), Some(f)) : f \in SourceFilesOf(ProgramOf(checker))}

Call(ctx, type, node) == [ctx |-> ctx, type |-> type, schema |-> node]

SeqsUpTo(S, n) == UNION {[1..k -> S] : k \in 0..n}

\* the candidate types: what the test programs declare
ObjX == ObjT("", <<PropSym("x", NumberT)>>)
ObjXY == ObjT("", <<PropSym("x", NumberT), PropSym("y", NumberT)>>)
ObjXYLabel ==
  ObjT("", <<PropSym("x", NumberT), PropSym("y", NumberT), PropSym("label", StringT)>>)
ObjWrong == ObjT("", <<PropSym("x", StringT), PropSym("y", NumberT)>>)
ObjY == ObjT("", <<PropSym("y", NumberT)>>)
ObjXOptY ==
  ObjT("", <<PropSym("x", NumberT), OptPropSym("y", UnionT(<<UndefinedT, NumberT>>))>>)
NumArr == ArrT(NumberT)
StrArr == ArrT(StringT)
NumPair == TupleT(<<NumberT, NumberT>>)
StringOrNumberT == UnionT(<<StringT, NumberT>>)

CandidateTypes ==
  { NumberT, StringT, BooleanT, NullT, UndefinedT, VoidT, Literal42T,
    StringOrNumberT, UnionT(<<StringT, NumberT, FalseT, TrueT>>),
    UnionT(<<NullT, NumberT>>), UnionT(<<UndefinedT, NullT, NumberT>>),
    UnionT(<<NullT, StringT>>),
    ObjX, ObjXY, ObjXYLabel, ObjWrong, ObjXOptY, UnionT(<<ObjXY, ObjWrong>>),
    NumArr, StrArr, NumPair, UnionT(<<NumArr, StrArr>>), GadgetT }

Leaves ==
  { t_number, t_string, t_boolean, t_void, t_undefined, t_null, t_any, t_unknown,
    t_custom("hasLength"), t_custom("isUnion") }

MemberSchemas == Leaves \cup {t_object(<<"x">>, <<t_number>>), t_array(t_number)}

UnionSchemas == {t_union(ms) : ms \in SeqsUpTo(MemberSchemas, MaxMembers)}

\* intersection(object({name}), object({age})) of the tests, over the keys x and y
NamedAndAged ==
  t_intersection(<<t_object(<<"x">>, <<t_number>>), t_object(<<"y">>, <<t_number>>)>>)

IntersectionSchemas ==
  {t_intersection(ms) : ms \in SeqsUpTo(MemberSchemas, MaxMembers)} \cup {NamedAndAged}

ArraySchemas == {t_array(e) : e \in MemberSchemas}

PropSchemas ==
  { t_number, t_string, t_any, t_undefined, t_custom("isUnion"),
    optional(t_number), optional(t_string), optional(t_custom("isUnion")),
    nullable(t_number), nullish(t_number), nullable(optional(t_number)) }

KeySeqs == {<<>>, <<"x">>, <<"y">>, <<"x", "y">>, <<"y", "x">>}

ObjectSchemas ==
  UNION {{t_object(ks, ps) : ps \in [1..Len(ks) -> PropSchemas]} : ks \in KeySeqs}

ModifierBase ==
  MemberSchemas \cup
  { t_intersection(<<t_custom("isUnion"), t_any>>), t_union(<<t_string, t_number>>),
    t_object(<<"x", "y">>, <<t_number, t_number>>), t_array(t_custom("isUnion")) }

ModifiedSchemas ==
  UNION {{optional(s), nullable(s), nullish(s), nullable(optional(s))} : s \in ModifierBase}

\* schema trees without t.fromModule
PureSchemas ==
  Leaves \cup UnionSchemas \cup IntersectionSchemas \cup ArraySchemas
  \cup ObjectSchemas \cup ModifiedSchemas

SchemaCalls ==
  {Call(ctx, type, s) :
     ctx \in {Context("checkerA", NoProgram, None),
              Context("checkerA", "programA", Some(TestFile))},
     type \in CandidateTypes, s \in PureSchemas}

\* schema trees with module references, each evaluated once from an empty cache
ModuleRefs ==
  { t_fromModule(FakeLib, "Gadget"), t_fromModule(NoSuchModule, "Foo"),
    t_fromModule(MyLib, "Foo"), t_fromModule(MyLib, "Nope"),
    t_fromModule(ShadowLib, "Foo"), t_fromModule(ShadowLib, "Bar"),
    t_fromModule(DotLib, "Foo"), t_fromModule(ScriptLib, "Foo") }

MixedProps ==
  {t_string, t_number, t_fromModule(FakeLib, "Gadget"), t_fromModule(NoSuchModule, "Foo")}

MixedSchemas ==
  ModuleRefs
  \cup {t_array(t_fromModule(FakeLib, "Gadget")), t_array(t_fromModule(NoSuchModule, "Foo"))}
  \cup {t_object(ks, ps) : ks \in {<<"x", "y">>, <<"y", "x">>}, ps \in [1..2 -> MixedProps]}

MixedTypes == {NumberT, GadgetT, FooT, BarT, ObjXY, ObjWrong, NumArr, ArrT(GadgetT)}

MixedCalls ==
  {Call(ctx, type, s) : ctx \in ContextsOf("checkerA") \cup ContextsOf("checkerB"),
     type \in MixedTypes, s \in MixedSchemas}

\* builder results over optional members, bare and as the property y of a shape
OptionalMemberSchemas ==
  { t_union(<<optional(t_number), t_string>>), t_intersection(<<optional(t_number), t_any>>),
    t_array(optional(t_number)), nullable(optional(t_number)), optional(nullable(t_number)),
    t_object(<<"y">>, <<optional(t_number)>>) }

FlagSchemas ==
  OptionalMemberSchemas
  \cup {t_object(<<"x", "y">>, <<t_number, s>>) : s \in OptionalMemberSchemas}

FlagCalls ==
  {Call(Context("checkerA", "programA", Some(TestFile)), type, s) :
     type \in {NumberT, ObjX, ObjXY, ObjXOptY}, s \in FlagSchemas}

\* the module references evaluated under the first checker
ModuleSchemas ==
  { t_fromModule(FakeLib, "Gadget"), t_fromModule(FakeLib, "DoesNotExist"),
    t_fromModule(FileLib, "Widget"), t_fromModule(NoSuchModule, "Foo") }

\* the module references evaluated under the second checker
OtherModuleSchemas == {t_fromModule(FakeLib, "Gadget")}

ModuleTypes == {GadgetT, StringT}

ModuleCalls ==
  {Call(ctx, type, s) : ctx \in ContextsOf("checkerA"), type \in ModuleTypes, s \in ModuleSchemas}
  \cup
  {Call(ctx, type, s) : ctx \in ContextsOf("checkerB"), type \in ModuleTypes,
     s \in OtherModuleSchemas}
  \cup
  {Call(Context("checkerA", "programA", None), type, t_fromModule(ParentLib, "Widget")) :
     type \in ModuleTypes}

(***************************************************************************)
(* The state machine.  moduleTypeCache is the WeakMap from checker to its  *)
(* Map; resolveCount and firstResolved record, per checker and key, how    *)
(* often resolveModuleType ran and what its first run returned; call and   *)
(* outcome are the latest isAssignableTo call and what it returned or      *)
(* raised.                                                                 *)
(***************************************************************************)
NoCall == Call(Context("checkerA", NoProgram, None), NumberT, t_any)

EmptyStore ==
  /\ moduleTypeCache = [c \in Checkers |-> None]
  /\ resolveCount = [c \in Checkers |-> EmptyMap]
  /\ firstResolved = [c \in Checkers |-> EmptyMap]

\* isAssignableTo(ctx, type, schema)
isAssignableTo(ctx, type, node) ==
  LET r == Accepts(node, type, ctx, Store(moduleTypeCache, resolveCount, firstResolved))
  IN /\ \A c \in Checkers : \A key \in DOMAIN r.st.count[c] :
          r.st.count[c][key] <= MaxResolutions
     /\ moduleTypeCache' = r.st.cache
     /\ resolveCount' = r.st.count
     /\ firstResolved' = r.st.first
     /\ call' = Call(ctx, type, node)
     /\ outcome' = r.out
     /\ nodes' = nodes

\* a caller evaluates a module reference; evaluations follow one another
Init == EmptyStore /\ call = NoCall /\ outcome = Pending /\ nodes = <<>>

EvaluateModuleCall == \E c \in ModuleCalls : isAssignableTo(c.ctx, c.type, c.schema)

Next == EvaluateModuleCall

Spec == Init /\ [][Next]_vars

\* a caller evaluates one schema tree on one candidate type
InitSchema ==
  /\ EmptyStore /\ outcome = Pending /\ nodes = <<>>
  /\ call \in SchemaCalls \cup MixedCalls \cup FlagCalls

EvaluateSchemaCall ==
  /\ outcome = Pending
  /\ isAssignableTo(call.ctx, call.type, call.schema)

NextSchema == EvaluateSchemaCall

SpecSchema == InitSchema /\ [][NextSchema]_vars

\* a caller holds a schema built once, calls modifiers on the objects it holds
\* and uses two of them as the properties x and y of an object schema
BaseNodes == {t_number, t_custom("isUnion")}

ShapeTypes == {ObjY, ObjXY}

InitNodes ==
  /\ EmptyStore /\ call = NoCall /\ outcome = Pending
  /\ nodes \in {<<b>> : b \in BaseNodes}

CallOptional ==
  \E i \in 1..Len(nodes) :
    /\ Len(nodes) < MaxNodes
    /\ nodes' = HeapOptional(nodes, Ref(i))
    /\ UNCHANGED <<moduleTypeCache, resolveCount, firstResolved, call, outcome>>

CallNullable ==
  \E i \in 1..Len(nodes) :
    /\ Len(nodes) < MaxNodes
    /\ nodes' = HeapNullable(nodes, Ref(i))
    /\ UNCHANGED <<moduleTypeCache, resolveCount, firstResolved, call, outcome>>

CallNullish ==
  \E i \in 1..Len(nodes) :
    /\ Len(nodes) + 1 < MaxNodes
    /\ nodes' = HeapNullish(nodes, Ref(i))
    /\ UNCHANGED <<moduleTypeCache, resolveCount, firstResolved, call, outcome>>

EvaluateShape ==
  \E i \in 1..Len(nodes), j \in 1..Len(nodes), type \in ShapeTypes :
    isAssignableTo(Context("checkerA", NoProgram, None), type,
                   t_object(<<"x", "y">>, <<Deref(nodes, Ref(i)), Deref(nodes, Ref(j))>>))

NextNodes == CallOptional \/ CallNullable \/ CallNullish \/ EvaluateShape

SpecNodes == InitNodes /\ [][NextNodes]_vars

(***************************************************************************)
(* Properties.                                                             *)
(***************************************************************************)
Evaluated == outcome # Pending

\* whether node accepts type, evaluated in the context and store of the latest call
AcceptsIn(node, type) ==
  IsTrue(Accepts(node, type, call.ctx,
                 Store(moduleTypeCache, resolveCount, firstResolved)).out)

SomeAccepts(members, type) == \E i \in 1..Len(members) : AcceptsIn(members[i], type)

\* C1: a union schema accepts a candidate that is not a union iff one of its
\* members accepts it, and a union-typed candidate iff each of its constituents
\* is accepted by one of the members.
C1_UnionCoversCandidate ==
  (Evaluated /\ call.schema.accepts.kind = "union") =>
    LET members == call.schema.accepts.members
        c == call.type
    IN IsTrue(outcome) <=>
         IF IsUnion(c)
         THEN \A j \in 1..Len(c.types) : SomeAccepts(members, c.types[j])
         ELSE SomeAccepts(members, c)

\* string | number | boolean against union(string, number) is rejected
C1_Witness ==
  /\ Evaluated
  /\ call.schema = t_union(<<t_string, t_number>>)
  /\ call.type = UnionT(<<StringT, NumberT, FalseT, TrueT>>)
  /\ IsFalse(outcome)

\* the rule of t.object for one entry of the shape
PropertyRule(key, propSchema, type) ==
  LET propSymbol == GetProperty(type, key)
  IN IF propSymbol = None THEN propSchema.isOptional
     ELSE IF ~propSchema.isOptional /\ HasOptionalFlag(propSymbol[1].flags) THEN FALSE
     ELSE AcceptsIn(propSchema, propSymbol[1].type)

\* C2: an object schema accepts a candidate iff every entry of its shape is
\* accepted: an absent property iff its schema is optional, a present one (not
\* rejected as declared optional under a required schema) iff its schema accepts
\* the property's type.
C2_ObjectAcceptsIffEveryProperty ==
  (Evaluated /\ call.schema.accepts.kind = "object") =>
    LET keys == call.schema.accepts.keys
        props == call.schema.accepts.members
    IN IsTrue(outcome) <=>
         \A i \in 1..Len(keys) : PropertyRule(keys[i], props[i], call.type)

\* {x: number} against object({x: number, y: number.optional()}) is accepted
C2_Witness ==
  /\ Evaluated
  /\ call.schema = t_object(<<"x", "y">>, <<t_number, optional(t_number)>>)
  /\ call.type = ObjX
  /\ IsTrue(outcome)

\* C3: an object schema with a required property schema for key k rejects a
\* candidate whose property k is present but declared optional, whatever the
\* property's type.
C3_RequiredRejectsDeclaredOptional ==
  (/\ Evaluated
   /\ call.schema.accepts.kind = "object"
   /\ \E i \in 1..Len(call.schema.accepts.keys) :
        LET propSymbol == GetProperty(call.type, call.schema.accepts.keys[i])
        IN /\ ~call.schema.accepts.members[i].isOptional
           /\ propSymbol # None
           /\ (propSymbol[1].flags \div 16777216) % 2 = 1)
  => IsFalse(outcome)

\* {x: number, y?: number} against object({x: number, y: any}): y's type is
\* accepted by its schema, and the candidate is rejected
C3_Witness ==
  /\ Evaluated
  /\ call.schema = t_object(<<"x", "y">>, <<t_number, t_any>>)
  /\ call.type = ObjXOptY
  /\ AcceptsIn(t_any, GetProperty(ObjXOptY, "y")[1].type)
  /\ IsFalse(outcome)

\* C4: S.optional() accepts every candidate S accepts, accepts undefined, and is
\* flagged optional.
C4_OptionalWidens ==
  (/\ Evaluated
   /\ call.schema.isOptional
   /\ call.schema.accepts.kind = "union"
   /\ Len(call.schema.accepts.members) = 2
   /\ call.schema.accepts.members[2] = t_undefined)
  => LET S == call.schema.accepts.members[1]
     IN /\ call.schema = optional(S)
        /\ AcceptsIn(S, call.type) => IsTrue(outcome)
        /\ AcceptsIn(call.schema, UndefinedT)

\* the composite key of a module reference evaluated in a context
KeyOf(c) ==
  CacheKey(c.schema.accepts.moduleName, c.schema.accepts.exportName,
           StartsWith(c.schema.accepts.moduleName, <<".", "/">>)
             \/ StartsWith(c.schema.accepts.moduleName, <<".", ".", "/">>),
           c.ctx.sourceFile)

\* the evaluations that reach the cache: a module reference, with a program, and
\* with a source file when the specifier is relative
ReachesCache(c) ==
  /\ c.schema.accepts.kind = "fromModule"
  /\ c.ctx.program # NoProgram
  /\ ~(c.ctx.sourceFile = None /\
       (StartsWith(c.schema.accepts.moduleName, <<".", "/">>)
          \/ StartsWith(c.schema.accepts.moduleName, <<".", ".", "/">>)))

\* C5: per checker and key resolveModuleType runs at most once, and an entry of
\* the cache, a type or the not-found marker, is never overwritten or removed.
C5_ResolvedOncePerKey ==
  [][\A c \in Checkers :
       /\ \A key \in DOMAIN resolveCount'[c] : resolveCount'[c][key] <= 1
       /\ moduleTypeCache[c] # None =>
            /\ moduleTypeCache'[c] # None
            /\ \A key \in DOMAIN moduleTypeCache[c][1] :
                 /\ key \in DOMAIN moduleTypeCache'[c][1]
                 /\ moduleTypeCache'[c][1][key] = moduleTypeCache[c][1][key]]_vars

\* fake-lib's Gadget evaluated from sub/other.ts after an evaluation elsewhere
\* cached it: the entry is the first one and nothing was resolved again
C5_Witness ==
  /\ Evaluated
  /\ call.schema = t_fromModule(FakeLib, "Gadget")
  /\ call.ctx = Context("checkerA", "programA", Some(SubFile))
  /\ call.type = StringT
  /\ moduleTypeCache["checkerA"] # None
  /\ KeyOf(call) \in DOMAIN moduleTypeCache["checkerA"][1]
  /\ moduleTypeCache["checkerA"][1][KeyOf(call)] = Some(GadgetT)
  /\ resolveCount["checkerA"][KeyOf(call)] = 1

\* C6: an evaluation that reaches the cache answers from the first resolution
\* made for its checker and key: assignability to the type resolved first, or,
\* when the first resolution found nothing, the unresolved-export error.
C6_ConsistentWithFirstResolution ==
  (Evaluated /\ ReachesCache(call)) =>
    LET first == firstResolved[call.ctx.checker]
    IN /\ KeyOf(call) \in DOMAIN first
       /\ outcome =
            IF first[KeyOf(call)] = None
            THEN ErrorOut(UnresolvedMessage(call.schema.accepts.exportName,
                                            call.schema.accepts.moduleName))
            ELSE BoolOut(IsTypeAssignableTo(call.type, first[KeyOf(call)][1]))

\* a Gadget is accepted from sub/other.ts, where fake-lib resolves to another
\* Gadget, because the key was first resolved from elsewhere
C6_Witness ==
  /\ Evaluated
  /\ call.schema = t_fromModule(FakeLib, "Gadget")
  /\ call.ctx = Context("checkerA", "programA", Some(SubFile))
  /\ call.type = GadgetT
  /\ firstResolved["checkerA"][KeyOf(call)] = Some(GadgetT)
  /\ outcome = BoolOut(TRUE)

\* C7: a module reference evaluated without a program raises the
\* missing-program error, whatever the cache holds.
C7_MissingProgramRaises ==
  (Evaluated /\ call.schema.accepts.kind = "fromModule" /\ call.ctx.program = NoProgram)
  => outcome = ErrorOut(MissingProgramMessage)

\* the key is cached, and the evaluation without a program still raises
C7_Witness ==
  /\ Evaluated
  /\ call.schema = t_fromModule(FakeLib, "Gadget")
  /\ call.ctx = Context("checkerA", NoProgram, None)
  /\ moduleTypeCache["checkerA"] # None
  /\ <<FakeLib, "Gadget", None>> \in DOMAIN moduleTypeCache["checkerA"][1]
  /\ outcome = ErrorOut(MissingProgramMessage)

\* C8: with a program and no source file, a module reference raises the
\* missing-source-file error iff its specifier starts with "./" or "../".
C8_RelativeNeedsSourceFile ==
  (/\ Evaluated
   /\ call.schema.accepts.kind = "fromModule"
   /\ call.ctx.program # NoProgram
   /\ call.ctx.sourceFile = None)
  => (outcome = ErrorOut(MissingSourceFileMessage)
        <=> (StartsWith(call.schema.accepts.moduleName, <<".", "/">>)
               \/ StartsWith(call.schema.accepts.moduleName, <<".", ".", "/">>)))

C8_Witness ==
  /\ Evaluated
  /\ call.schema = t_fromModule(FileLib, "Widget")
  /\ call.ctx = Context("checkerA", "programA", None)
  /\ outcome = ErrorOut(MissingSourceFileMessage)

\* the fixed text of an unresolved-export message, without the names put in it
MessageShape(msg) == <<msg[1], msg[3], msg[5]>>

IsUnresolved(out) == out.kind = "error" /\ Len(out.msg) = 5

\* why the module reference of a call resolves to nothing in the call's context
UnresolvedCause(c) ==
  IF ResolveModuleSymbol(c.ctx.checker, c.ctx.program, c.schema.accepts.moduleName,
                         c.ctx.sourceFile) = None
  THEN "no module" ELSE "export not found"

\* C9: the unresolved-export error of a module that resolved without the export
\* and the one of a specifier that no module matched never have the same
\* message shape.
C9_MessageTellsCause ==
  [][(/\ IsUnresolved(outcome) /\ IsUnresolved(outcome')
      /\ ReachesCache(call) /\ ReachesCache(call')
      /\ UnresolvedCause(call) # UnresolvedCause(call'))
     => MessageShape(outcome.msg) # MessageShape(outcome'.msg)]_vars

\* C10: a schema tree without module references evaluates to true or false in
\* every context, also one without program or source file.
C10_PureSchemasNeverRaise ==
  (Evaluated /\ call.schema \in PureSchemas) => outcome.kind = "bool"

\* array(number) on number, with no program in the context: false, no error
C10_Witness ==
  /\ Evaluated
  /\ call.schema = t_array(t_number)
  /\ call.type = NumberT
  /\ call.ctx = Context("checkerA", NoProgram, None)
  /\ outcome = BoolOut(FALSE)

\* C11: a primitive schema answers what the checker answers for the candidate
\* against the well-known type of the primitive: number, string, boolean, void,
\* undefined, null; nothing else enters the result.
C11_PrimitiveIsOracleAnswer ==
  \A P \in { <<t_number, NumberT>>, <<t_string, StringT>>, <<t_boolean, BooleanT>>,
             <<t_void, VoidT>>, <<t_undefined, UndefinedT>>, <<t_null, NullT>> } :
    (Evaluated /\ call.schema = P[1])
      => outcome = BoolOut(IsTypeAssignableTo(call.type, P[2]))

\* void against t.void() is accepted, as the checker says of void against void
C11_Witness ==
  /\ Evaluated
  /\ call.schema = t_void
  /\ call.type = VoidT
  /\ IsTypeAssignableTo(VoidT, VoidT)
  /\ outcome = BoolOut(TRUE)

\* C12: an intersection schema accepts a candidate iff every member accepts the
\* candidate itself; a union-typed candidate is handed to the members whole.
C12_IntersectionEveryMemberWhole ==
  (Evaluated /\ call.schema.accepts.kind = "intersection") =>
    /\ outcome.kind = "bool"
    /\ IsTrue(outcome) <=>
         \A i \in 1..Len(call.schema.accepts.members) :
           AcceptsIn(call.schema.accepts.members[i], call.type)

\* string | number is accepted by intersection(custom isUnion, any), whose first
\* member rejects both constituents; {x, y} passes the two object members and
\* {x} does not
C12_Witness ==
  /\ Evaluated
  /\ call.schema = t_intersection(<<t_custom("isUnion"), t_any>>)
  /\ call.type = StringOrNumberT
  /\ ~AcceptsIn(t_custom("isUnion"), StringT)
  /\ AcceptsIn(NamedAndAged, ObjXY)
  /\ ~AcceptsIn(NamedAndAged, ObjX)
  /\ IsTrue(outcome)

\* C13: an array schema accepts a candidate iff the candidate has a numeric index
\* type and the element schema accepts that index type; without one the
\* candidate is rejected and the element schema is not evaluated: it raises
\* nothing and resolves nothing.
C13_ArrayChecksIndexType ==
  (Evaluated /\ call.schema.accepts.kind = "array") =>
    LET element == call.schema.accepts.members[1]
        indexType == GetNumberIndexType(call.type)
    IN IF indexType = None
       THEN /\ outcome = BoolOut(FALSE)
            /\ \A c \in Checkers : moduleTypeCache[c] = None
       ELSE outcome = Accepts(element, indexType[1], call.ctx,
                              Store(moduleTypeCache, resolveCount, firstResolved)).out

\* number against array(fromModule("no-such", "Foo")): the element schema would
\* raise on it, the array schema rejects it and the cache is untouched;
\* array(number) accepts [number, number] and rejects string[]
C13_Witness ==
  /\ Evaluated
  /\ call.schema = t_array(t_fromModule(NoSuchModule, "Foo"))
  /\ call.type = NumberT
  /\ call.ctx = Context("checkerA", "programA", None)
  /\ IsError(Accepts(t_fromModule(NoSuchModule, "Foo"), NumberT, call.ctx,
                     Store(moduleTypeCache, resolveCount, firstResolved)).out)
  /\ AcceptsIn(t_array(t_number), NumPair)
  /\ ~AcceptsIn(t_array(t_number), StrArr)
  /\ moduleTypeCache["checkerA"] = None
  /\ outcome = BoolOut(FALSE)

\* a candidate is unrelated to null when it is not null and, being a union, has
\* a constituent other than null that S rejects
UnrelatedToNull(S, c) ==
  IF IsUnion(c)
  THEN \E j \in 1..Len(c.types) : c.types[j] # NullT /\ ~AcceptsIn(S, c.types[j])
  ELSE c # NullT

\* C14: S.nullable() accepts every candidate S accepts, accepts null, accepts
\* base | null whenever S accepts base, and rejects a candidate that S rejects
\* and that is unrelated to null.
C14_NullableWidens ==
  \A S \in ModifierBase :
    (Evaluated /\ call.schema = nullable(S)) =>
      /\ AcceptsIn(S, call.type) => IsTrue(outcome)
      /\ AcceptsIn(nullable(S), NullT)
      /\ AcceptsIn(S, call.type) => AcceptsIn(nullable(S), MkUnion(<<call.type, NullT>>))
      /\ (~AcceptsIn(S, call.type) /\ UnrelatedToNull(S, call.type)) => IsFalse(outcome)

C16_ModifiersLeaveReceiver ==
  /\ [][/\ \A i \in 1..Len(nodes) : i <= Len(nodes') /\ nodes'[i] = nodes[i]
        /\ nodes' # nodes => Len(nodes') > Len(nodes)]_vars
  /\ [](\A b \in BaseNodes :
          (/\ Evaluated
           /\ Len(nodes) > 1
           /\ call.schema.accepts.kind = "object"
           /\ call.schema.accepts.members[1] = Deref(nodes, Ref(1))
           /\ nodes[1].accepts = b.accepts
           /\ call.type = ObjY)
          => IsFalse(outcome))

\* n = t.number(), then object({x: n, y: n.optional()}): {y: number} is rejected
C16_Witness ==
  /\ Evaluated
  /\ Len(nodes) > 1
  /\ nodes[1] = t_number
  /\ nodes[2] = optional(Ref(1))
  /\ call.schema = t_object(<<"x", "y">>, <<t_number, optional(t_number)>>)
  /\ call.type = ObjY
  /\ IsFalse(outcome)

\* the candidate with one more property, under a name no shape of the model has
WithExtra(c, sym) ==
  IF IsUnion(c) THEN UnionT([j \in 1..Len(c.types) |-> ObjT(c.types[j].name,
                                                          Append(c.types[j].props, sym))])
  ELSE ObjT(c.name, Append(c.props, sym))

IsObjectType(c) ==
  IF IsUnion(c) THEN \A j \in 1..Len(c.types) : c.types[j].k = "object"
  ELSE c.k = "object"

\* C17: a candidate that an object schema accepts is still accepted with one
\* more property, required or optional, whose name is not a key of the shape.
C17_ExtraPropertyKeepsAcceptance ==
  (/\ Evaluated
   /\ call.schema.accepts.kind = "object"
   /\ IsObjectType(call.type)
   /\ IsTrue(outcome))
  => \A sym \in {PropSym("extra", StringT), OptPropSym("extra", UnionT(<<UndefinedT, NullT>>))} :
       /\ \A k \in 1..Len(call.schema.accepts.keys) : call.schema.accepts.keys[k] # sym.name
       /\ AcceptsIn(call.schema, WithExtra(call.type, sym))

\* {x, y} passes object({x: number, y: number}), and so does {x, y, label}
C17_Witness ==
  /\ Evaluated
  /\ call.schema = t_object(<<"x", "y">>, <<t_number, t_number>>)
  /\ call.type = ObjXY
  /\ IsTrue(outcome)
  /\ WithExtra(ObjXY, PropSym("label", StringT)) = ObjXYLabel
  /\ AcceptsIn(call.schema, ObjXYLabel)

\* the module symbol standard resolution yields for the module reference of a
\* call: the symbol at the source file the program has for the resolved module
StandardSymbol(c) ==
  LET containingFile ==
        IF c.ctx.sourceFile # None THEN c.ctx.sourceFile[1]
        ELSE GetCurrentDirectory(c.ctx.program) \o <<"__typezod__.ts">>
      resolved == ResolveModuleName(c.schema.accepts.moduleName, containingFile)
  IN IF resolved = None \/ GetSourceFile(c.ctx.program, resolved[1]) = None THEN None
     ELSE GetSymbolAtLocation(c.ctx.checker, resolved[1])

\* the ambient module registered under the specifier of a call
AmbientSymbol(c) ==
  LET named == {i \in 1..Len(GetAmbientModules(c.ctx.checker)) :
                  GetAmbientModules(c.ctx.checker)[i].name
                    = <<"\"">> \o c.schema.accepts.moduleName \o <<"\"">>}
  IN IF named = {} THEN None
     ELSE Some(GetAmbientModules(c.ctx.checker)[CHOOSE i \in named : \A j \in named : i <= j])

\* the outcome of a module reference whose export is looked up in one module
OutcomeFrom(moduleSymbol, c) ==
  LET found == IF moduleSymbol = None THEN {}
               ELSE {i \in 1..Len(moduleSymbol[1].exports) :
                       moduleSymbol[1].exports[i].name = c.schema.accepts.exportName}
  IN IF found = {}
     THEN ErrorOut(UnresolvedMessage(c.schema.accepts.exportName, c.schema.accepts.moduleName))
     ELSE BoolOut(IsTypeAssignableTo(c.type,
            moduleSymbol[1].exports[CHOOSE i \in found : \A j \in found : i <= j].declared))

C19_ShapeOrderIrrelevant ==
  (Evaluated /\ call.schema.accepts.kind = "object" /\ Len(call.schema.accepts.keys) = 2) =>
    LET keys == call.schema.accepts.keys
        props == call.schema.accepts.members
    IN outcome = Accepts(t_object(<<keys[2], keys[1]>>, <<props[2], props[1]>>),
                         call.type, call.ctx,
                         Store([c \in Checkers |-> None], [c \in Checkers |-> EmptyMap],
                               [c \in Checkers |-> EmptyMap])).out

\* the outcome of a module reference answered from one resolution result
OutcomeOfResolution(resolved, c) ==
  IF resolved = None
  THEN ErrorOut(UnresolvedMessage(c.schema.accepts.exportName, c.schema.accepts.moduleName))
  ELSE BoolOut(IsTypeAssignableTo(c.type, resolved[1]))

\* C20: an evaluation under one checker leaves the key map and the resolutions
\* of every other checker as they were, and an evaluation that reaches the cache
\* is answered from a resolution that ran under its own checker for its key,
\* whatever was evaluated under other checkers before.
C20_CachePerChecker ==
  /\ [][\A c \in Checkers :
          c # call'.ctx.checker =>
            /\ moduleTypeCache'[c] = moduleTypeCache[c]
            /\ resolveCount'[c] = resolveCount[c]]_vars
  /\ []((Evaluated /\ ReachesCache(call)) =>
          /\ KeyOf(call) \in DOMAIN resolveCount[call.ctx.checker]
          /\ resolveCount[call.ctx.checker][KeyOf(call)] > 0
          /\ \E sf \in {None} \cup {Some(f) : f \in SourceFilesOf(call.ctx.program)} :
               outcome = OutcomeOfResolution(
                           ResolveModuleType(call.ctx.checker, call.ctx.program,
                                             call.schema.accepts.moduleName,
                                             call.schema.accepts.exportName, sf), call))

\* the first checker has fake-lib's Gadget cached under the key the second
\* checker now evaluates; the second resolves its own Gadget and rejects the
\* first one's
C20_Witness ==
  /\ Evaluated
  /\ call.schema = t_fromModule(FakeLib, "Gadget")
  /\ call.ctx = Context("checkerB", "programB", None)
  /\ call.type = GadgetT
  /\ moduleTypeCache["checkerA"] # None
  /\ KeyOf(call) \in DOMAIN moduleTypeCache["checkerA"][1]
  /\ moduleTypeCache["checkerA"][1][KeyOf(call)] = Some(GadgetT)
  /\ resolveCount["checkerB"][KeyOf(call)] = 1
  /\ moduleTypeCache["checkerB"][1][KeyOf(call)] = Some(OtherGadgetT)
  /\ outcome = BoolOut(FALSE)

\* C21: every evaluation that reaches the cache has the outcome of an engine
\* without cache, which runs resolveModuleType with the program and source file
\* of the evaluation's own context.
C21_CacheTransparent ==
  (Evaluated /\ ReachesCache(call)) =>
    outcome = OutcomeOfResolution(
                ResolveModuleType(call.ctx.checker, call.ctx.program,
                                  call.schema.accepts.moduleName,
                                  call.schema.accepts.exportName, call.ctx.sourceFile), call)

\* a node that has the form optional() returns: the predicate of
\* union(S, undefined)
OptionalShaped(node) ==
  /\ node.accepts.kind = "union"
  /\ Len(node.accepts.members) = 2
  /\ node.accepts.members[2] = t_undefined

\* in a schema tree, only nodes of the form optional() returns are flagged
RECURSIVE FlagOnlyFromOptional(_)
FlagOnlyFromOptional(node) ==
  /\ node.isOptional => OptionalShaped(node)
  /\ \A i \in 1..Len(node.accepts.members) : FlagOnlyFromOptional(node.accepts.members[i])

\* a property schema of the form nullable() returns
NullableShaped(node) ==
  /\ node.accepts.kind = "union"
  /\ Len(node.accepts.members) = 2
  /\ node.accepts.members[2] = t_null

\* C22: a node is flagged optional only if optional() or nullish() returned it;
\* what a builder or nullable() returns is not flagged, whatever its members
\* are, so an object schema whose property schema is S.optional().nullable(),
\* or a union, intersection or array over optional members, rejects a candidate
\* in which that property is absent or declared optional.
C22_FlagOnlyFromOptional ==
  /\ FlagOnlyFromOptional(call.schema)
  /\ (Evaluated /\ call.schema.accepts.kind = "object") =>
       \A i \in 1..Len(call.schema.accepts.keys) :
         LET p == call.schema.accepts.members[i]
             propSymbol == GetProperty(call.type, call.schema.accepts.keys[i])
         IN (/\ NullableShaped(p) \/ p.accepts.kind \in {"intersection", "array", "object"}
                \/ (p.accepts.kind = "union" /\ ~OptionalShaped(p))
             /\ propSymbol = None \/ HasOptionalFlag(propSymbol[1].flags))
            => (~p.isOptional /\ IsFalse(outcome))

\* {x} against object({x: number, y: number.optional().nullable()}) is rejected,
\* and accepted with y: number.nullable().optional()
C22_Witness ==
  /\ Evaluated
  /\ call.schema = t_object(<<"x", "y">>, <<t_number, nullable(optional(t_number))>>)
  /\ call.type = ObjX
  /\ ~nullable(optional(t_number)).isOptional
  /\ optional(nullable(t_number)).isOptional
  /\ AcceptsIn(t_object(<<"x", "y">>, <<t_number, optional(nullable(t_number))>>), ObjX)
  /\ ~AcceptsIn(t_object(<<"x", "y">>, <<t_number, t_union(<<optional(t_number), t_string>>)>>),
                ObjXOptY)
  /\ IsFalse(outcome)

\* C23: an evaluation that raises the missing-program or missing-source-file
\* error leaves the cache as it was, with no key map created for its checker; an
\* evaluation that raises the unresolved-export error leaves the key map of its
\* checker with the not-found marker for its key, as the one new entry if the
\* key had none, and every other entry and checker as before.
C23_ErrorsAndTheCache ==
  [][LET c == call'.ctx.checker
         key == KeyOf(call')
         old == IF moduleTypeCache[c] = None THEN EmptyMap ELSE moduleTypeCache[c][1]
     IN /\ outcome' \in {ErrorOut(MissingProgramMessage), ErrorOut(MissingSourceFileMessage)}
             => moduleTypeCache' = moduleTypeCache
        /\ IsUnresolved(outcome') =>
             /\ \A other \in Checkers \ {c} : moduleTypeCache'[other] = moduleTypeCache[other]
             /\ moduleTypeCache'[c] # None
             /\ DOMAIN moduleTypeCache'[c][1] = DOMAIN old \cup {key}
             /\ moduleTypeCache'[c][1][key] = None
             /\ \A k \in DOMAIN old : moduleTypeCache'[c][1][k] = old[k]]_vars

\* the second checker raised the missing-program error and has no key map; the
\* first holds the not-found marker an unresolved reference left, and nothing else
C23_Witness ==
  /\ Evaluated
  /\ call.ctx = Context("checkerB", NoProgram, None)
  /\ call.schema.accepts.kind = "fromModule"
  /\ outcome = ErrorOut(MissingProgramMessage)
  /\ moduleTypeCache["checkerB"] = None
  /\ moduleTypeCache["checkerA"] # None
  /\ DOMAIN moduleTypeCache["checkerA"][1] = {<<NoSuchModule, "Foo", None>>}
  /\ moduleTypeCache["checkerA"][1][<<NoSuchModule, "Foo", None>>] = None

====
